---- MODULE Spec2Model ----
(***************************************************************************)
(* A model of chatbot.py: the Slack slash-command webhook handler           *)
(* (lambda_handler), its request verifier (verify_slack_request) and its    *)
(* text parser (parse_slash_command).                                       *)
(*                                                                          *)
(* Text is modelled as a sequence of one-character strings, so that the     *)
(* three regular expressions of parse_slash_command are matched character   *)
(* by character, as re.search matches them.                                 *)
(***************************************************************************)
EXTENDS Integers, Sequences, FiniteSets, TLC

VARIABLES
    table,        \* the DynamoDB table: order_id -> item, or NoItem
    puts,         \* history: the completed put_item calls, in order
    now,          \* the clock datetime.now() reads
    pc,           \* per invocation: "idle", "put_item" or "done"
    event,        \* per invocation: the event lambda_handler was given
    verified,     \* per invocation: what verify_slack_request did
    data,         \* per invocation: the item built at lines 103-108
    response,     \* per invocation: what lambda_handler returned
    text,         \* parse_slash_command: its argument
    shape,        \* parse_slash_command: how the argument was put together
    parsed_data,  \* parse_slash_command: its result
    request,      \* verify_slack_request: its arguments and the secret
    verdict       \* verify_slack_request: its outcome

vars == <<table, puts, now, pc, event, verified, data, response,
          text, shape, parsed_data, request, verdict>>

(***************************************************************************)
(* Characters and strings                                                   *)
(***************************************************************************)

\* \s of the re module, on the characters the model uses
IsSpace(c) == c \in {" ", "\t", "\n"}

\* \d of the re module
IsDigit(c) == c \in {"0", "1", "2", "3", "4", "5", "6", "7", "8", "9"}

\* [=:\s]
IsSep(c) == c \in {"=", ":"} \/ IsSpace(c)

\* [_\s]
IsUnderscoreOrSpace(c) == c = "_" \/ IsSpace(c)

\* [^}]
IsNotRBrace(c) == c # "}"

\* [^\n,]
IsNotNewlineOrComma(c) == c \notin {"\n", ","}

\* re.IGNORECASE on the letters of the three keywords
Lower(c) ==
    CASE c = "O" -> "o" [] c = "R" -> "r" [] c = "D" -> "d" [] c = "E" -> "e"
      [] c = "I" -> "i" [] c = "F" -> "f" [] c = "L" -> "l" [] c = "W" -> "w"
      [] OTHER -> c

\* the value of one decimal digit
DigitValue(c) ==
    CASE c = "0" -> 0 [] c = "1" -> 1 [] c = "2" -> 2 [] c = "3" -> 3
      [] c = "4" -> 4 [] c = "5" -> 5 [] c = "6" -> 6 [] c = "7" -> 7
      [] c = "8" -> 8 [] c = "9" -> 9

\* int(s) for a non-empty string of digits
RECURSIVE int(_)
int(s) ==
    IF s = <<>> THEN 0
    ELSE 10 * int(SubSeq(s, 1, Len(s) - 1)) + DigitValue(s[Len(s)])

\* membership in a character class of the three patterns
InClass(cls, c) ==
    CASE cls = "\\s" -> IsSpace(c)
      [] cls = "\\d" -> IsDigit(c)
      [] cls = "[=:\\s]" -> IsSep(c)
      [] cls = "[_\\s]" -> IsUnderscoreOrSpace(c)
      [] cls = "[^}]" -> IsNotRBrace(c)
      [] cls = "[^\\n,]" -> IsNotNewlineOrComma(c)

\* the first position j >= i whose character is not in the class, or Len(s)+1:
\* where a greedy cls* that starts at i ends
SkipWhile(s, i, cls) ==
    CHOOSE j \in i..(Len(s) + 1) :
        /\ \A k \in i..(j - 1) : InClass(cls, s[k])
        /\ j = Len(s) + 1 \/ ~InClass(cls, s[j])

\* does the literal kw occur at position i of s, ignoring case
LiteralAt(s, i, kw) ==
    /\ i + Len(kw) - 1 <= Len(s)
    /\ \A k \in 1..Len(kw) : Lower(s[i + k - 1]) = kw[k]

\* str.strip()
strip(s) ==
    IF \A k \in 1..Len(s) : IsSpace(s[k]) THEN <<>>
    ELSE LET a == SkipWhile(s, 1, "\\s")
             b == CHOOSE j \in 1..Len(s) :
                      /\ ~IsSpace(s[j])
                      /\ \A k \in (j + 1)..Len(s) : IsSpace(s[k])
         IN  SubSeq(s, a, b)

\* str.split(','): the pieces between the commas, empty ones included
RECURSIVE split(_)
split(s) ==
    IF \A k \in 1..Len(s) : s[k] # "," THEN <<s>>
    ELSE LET c == CHOOSE j \in 1..Len(s) :
                      s[j] = "," /\ \A k \in 1..(j - 1) : s[k] # ","
         IN  <<SubSeq(s, 1, c - 1)>> \o split(SubSeq(s, c + 1, Len(s)))

(***************************************************************************)
(* parse_slash_command                                                      *)
(***************************************************************************)

NoMatch == [matched |-> FALSE, group1 |-> <<>>]

Match(g) == [matched |-> TRUE, group1 |-> g]

\* order[_\s]*id[=:\s]+\s*(\d+) at position i
OrderIdAt(s, i) ==
    IF ~LiteralAt(s, i, <<"o", "r", "d", "e", "r">>) THEN NoMatch
    ELSE LET a == SkipWhile(s, i + 5, "[_\\s]")
         IN  IF ~LiteralAt(s, a, <<"i", "d">>) THEN NoMatch
             ELSE LET b == SkipWhile(s, a + 2, "[=:\\s]")
                      c == SkipWhile(s, b, "\\d")
                  IN  IF b > a + 2 /\ c > b
                      THEN Match(SubSeq(s, b, c - 1))
                      ELSE NoMatch

\* flow[=:\s]+\s*{?\s*([^}]*)\s*}? at position i
FlowAt(s, i) ==
    IF ~LiteralAt(s, i, <<"f", "l", "o", "w">>) THEN NoMatch
    ELSE LET a == SkipWhile(s, i + 4, "[=:\\s]")
             b == IF a <= Len(s) /\ s[a] = "{" THEN a + 1 ELSE a
             c == SkipWhile(s, b, "\\s")
             d == SkipWhile(s, c, "[^}]")
         IN  IF a > i + 4 THEN Match(SubSeq(s, c, d - 1)) ELSE NoMatch

\* error[=:\s]+\s*([^\n,]+) at position i.  When the separators run to the
\* end of the text, to a comma or to a newline, the engine backtracks and the
\* group is the last separator that is not a newline, the first one excepted
\* (which [=:\s]+ needs).
ErrorAt(s, i) ==
    IF ~LiteralAt(s, i, <<"e", "r", "r", "o", "r">>) THEN NoMatch
    ELSE LET a == SkipWhile(s, i + 5, "[=:\\s]")
         IN  IF a = i + 5 THEN NoMatch
             ELSE IF a <= Len(s) /\ IsNotNewlineOrComma(s[a])
             THEN Match(SubSeq(s, a, SkipWhile(s, a, "[^\\n,]") - 1))
             ELSE IF \E p \in (i + 6)..(a - 1) : s[p] # "\n"
             THEN LET p == CHOOSE q \in (i + 6)..(a - 1) :
                               /\ s[q] # "\n"
                               /\ \A k \in (q + 1)..(a - 1) : s[k] = "\n"
                  IN  Match(SubSeq(s, p, SkipWhile(s, p, "[^\\n,]") - 1))
             ELSE NoMatch

\* the match of one of the three patterns at position i
MatchAt(pattern, s, i) ==
    CASE pattern = "order_id" -> OrderIdAt(s, i)
      [] pattern = "flow" -> FlowAt(s, i)
      [] pattern = "error" -> ErrorAt(s, i)

\* re.search: the match at the leftmost position where the pattern matches
leftmost(pattern, s, starts) ==
    IF starts = {} THEN NoMatch
    ELSE MatchAt(pattern, s, CHOOSE i \in starts : \A k \in starts : i <= k)

\* re.search(pattern, text, re.IGNORECASE)
search(pattern, s) ==
    leftmost(pattern, s, {i \in 1..Len(s) : MatchAt(pattern, s, i).matched})

order_id_match(s) == search("order_id", s)

flow_match(s) == search("flow", s)

error_match(s) == search("error", s)

\* flow_list without the strip of each entry
flow_list_untrimmed(g) == split(g)

\* [event.strip() for event in flow_match.group(1).split(',')]
flow_list(g) == LET parts == split(g) IN [k \in 1..Len(parts) |-> strip(parts[k])]

PyNone == [type |-> "NoneType"]

\* lines 53-60 with a gate that forgets error_match
parse_result_partial(o, f, e, s) ==
    IF o.matched /\ f.matched
    THEN [type |-> "dict",
          order_id |-> int(o.group1),
          flow |-> flow_list(f.group1),
          error |-> strip(e.group1),
          original_input |-> s]
    ELSE PyNone

\* lines 53-60: the dict when the three patterns matched; otherwise the
\* function ends without a return, which is None
parse_result(o, f, e, s) ==
    IF o.matched /\ f.matched /\ e.matched
    THEN [type |-> "dict",
          order_id |-> int(o.group1),
          flow |-> flow_list(f.group1),
          error |-> strip(e.group1),
          original_input |-> s]
    ELSE PyNone

\* parse_slash_command(text)
parse_slash_command(s) ==
    parse_result(order_id_match(s), flow_match(s), error_match(s), s)

(***************************************************************************)
(* The texts parse_slash_command is given                                   *)
(***************************************************************************)

\* the most spaces put before or after a keyword's delimiter or a comma
MaxPad == 2

\* the most entries of a brace-enclosed flow list
MaxFlowEntries == 2

Spaces(n) == [k \in 1..n |-> " "]

RECURSIVE Join(_, _)
Join(parts, glue) ==
    IF parts = <<>> THEN <<>>
    ELSE IF Len(parts) = 1 THEN parts[1]
    ELSE parts[1] \o glue \o Join(Tail(parts), glue)

Reverse(q) == [k \in 1..Len(q) |-> q[Len(q) + 1 - k]]

FieldNames == {"order_id", "flow", "error"}

\* the fields of a text, in the order they are written: all three in any
\* order, or two of them (one field left out)
FieldOrders ==
    {<<"order_id", "flow", "error">>, <<"flow", "order_id", "error">>,
     <<"order_id", "error", "flow">>, <<"flow", "error", "order_id">>,
     <<"error", "order_id", "flow">>, <<"error", "flow", "order_id">>,
     <<"flow", "error">>, <<"order_id", "error">>, <<"order_id", "flow">>}

OrderKeywords ==
    {<<"o", "r", "d", "e", "r", " ", "i", "d">>,
     <<"o", "r", "d", "e", "r", "_", "i", "d">>,
     <<"O", "r", "d", "e", "r", " ", "I", "D">>}

OrderIds == {<<"4", "2">>, <<"0", "0", "7">>}

FlowTokens == {<<"c", "h", "e", "c", "k", "o", "u", "t">>, <<"p", "a", "y">>}

ErrorTexts ==
    {<<"t", "i", "m", "e", "o", "u", "t">>,
     <<"b", "a", "d", " ", "s", "t", "a", "t", "e">>}

EntryNames == <<<<"a">>, <<"b">>, <<"c">>, <<"d">>>>

\* the entries of a flow list: none, or the first n names in either order
FlowLists ==
    {<<>>} \cup {SubSeq(EntryNames, 1, n) : n \in 1..MaxFlowEntries}
           \cup {Reverse(SubSeq(EntryNames, 1, n)) : n \in 2..MaxFlowEntries}

\* how a text is put together
Shapes ==
    {[fields |-> fo, keyword |-> kw, delim |-> dl, padL |-> pl, padR |-> pr,
      N |-> n, braces |-> FALSE, entries |-> <<x>>, gap |-> 0, Y |-> y] :
        fo \in FieldOrders, kw \in OrderKeywords, dl \in {":", "="},
        pl \in 0..MaxPad, pr \in 0..MaxPad, n \in OrderIds, x \in FlowTokens,
        y \in ErrorTexts}
    \cup
    {[fields |-> fo, keyword |-> kw, delim |-> dl, padL |-> pl, padR |-> pr,
      N |-> n, braces |-> TRUE, entries |-> es, gap |-> g, Y |-> y] :
        fo \in FieldOrders, kw \in OrderKeywords, dl \in {":", "="},
        pl \in 0..MaxPad, pr \in 0..MaxPad, n \in OrderIds, es \in FlowLists,
        g \in 0..MaxPad, y \in ErrorTexts}

\* the shapes the model draws: the Order ID keyword spelling only with ':',
\* and at most MaxPad spaces around a delimiter in all
DrawnShapes ==
    {sh \in Shapes :
        /\ sh.padL + sh.padR <= MaxPad
        /\ sh.keyword[1] = "O" => sh.delim = ":" /\ sh.padL = 0
        /\ sh.entries = <<>> => sh.gap = 0}

Delimiter(sh) == Spaces(sh.padL) \o <<sh.delim>> \o Spaces(sh.padR)

\* the flow value as written: one token, or {e1, e2, ...}
FlowValue(sh) ==
    IF sh.braces
    THEN LET lead == Spaces(IF sh.gap > 1 THEN 1 ELSE 0)
         IN  <<"{">> \o lead \o Join(sh.entries, <<",">> \o Spaces(sh.gap))
                     \o lead \o <<"}">>
    ELSE sh.entries[1]

Segment(sh, f) ==
    CASE f = "order_id" -> sh.keyword \o Delimiter(sh) \o sh.N
      [] f = "flow" -> <<"f", "l", "o", "w">> \o Delimiter(sh) \o FlowValue(sh)
      [] f = "error" -> <<"e", "r", "r", "o", "r">> \o Delimiter(sh) \o sh.Y

\* the text of a shape: its fields, one space between them
Render(sh) ==
    Join([k \in 1..Len(sh.fields) |-> Segment(sh, sh.fields[k])], <<" ">>)

Unset == [type |-> "unset"]

NoShape == [fields |-> <<>>]

(***************************************************************************)
(* verify_slack_request                                                     *)
(***************************************************************************)

\* os.environ['SLACK_SIGNING_SECRET']
slack_signing_secret == "signing-secret"

\* a str; ascii tells whether all its characters are ASCII
PyStr(v) == [type |-> "str", value |-> v, ascii |-> TRUE]

NonAsciiStr(v) == [type |-> "str", value |-> v, ascii |-> FALSE]

\* {x} in an f-string: str(x), which is 'None' for None
Format(x) == IF x = PyNone THEN "None" ELSE x.value

\* f"v0:{timestamp}:{body}"
sig_basestring(timestamp, body) == <<"v0:", Format(timestamp), ":", Format(body)>>

\* hmac.new(key, msg, hashlib.sha256).hexdigest(): the digest is a term over
\* the key and the message, so that two digests are equal exactly when their
\* keys and messages are (no collisions, no forgery without the key)
hexdigest(key, msg) == [hmac_sha256 |-> <<key, msg>>]

\* 'v0=' + hmac.new(...).hexdigest()
my_signature(timestamp, body) ==
    <<"v0=", hexdigest(slack_signing_secret, sig_basestring(timestamp, body))>>

\* hmac.compare_digest(a, b) with a an ASCII str: TypeError unless b is an
\* ASCII str too
compare_digest(a, b) ==
    IF b.type # "str" \/ ~b.ascii THEN "TypeError"
    ELSE IF a = b.value THEN "True" ELSE "False"

\* verify_slack_request(slack_signature, timestamp, body): "True", "False",
\* or the exception it raises
verify_slack_request(slack_signature, timestamp, body) ==
    compare_digest(my_signature(timestamp, body), slack_signature)

(***************************************************************************)
(* The request body: urllib.parse.parse_qs                                  *)
(***************************************************************************)

\* A body is the sequence of its '&'-separated fields; a field is a sequence
\* of the units of URL-encoded text: a plain character, '+', or a %XX escape.

\* urllib.parse.quote_plus on one character
quote_plus(c) ==
    CASE c = " " -> "+" [] c = "/" -> "%2F" [] c = ":" -> "%3A"
      [] c = "=" -> "%3D" [] c = "," -> "%2C" [] c = "{" -> "%7B"
      [] c = "}" -> "%7D" [] c = "\n" -> "%0A" [] c = "\t" -> "%09"
      [] OTHER -> c

\* what parse_qsl decodes one unit to: '+' to a space, %XX to its character
unquote(u) ==
    CASE u = "+" -> " " [] u = "%2F" -> "/" [] u = "%3A" -> ":"
      [] u = "%3D" -> "=" [] u = "%2C" -> "," [] u = "%7B" -> "{"
      [] u = "%7D" -> "}" [] u = "%0A" -> "\n" [] u = "%09" -> "\t"
      [] OTHER -> u

Encode(s) == [k \in 1..Len(s) |-> quote_plus(s[k])]

Decode(f) == [k \in 1..Len(f) |-> unquote(f[k])]

HasEq(f) == \E i \in 1..Len(f) : f[i] = "="

EqPos(f) == CHOOSE i \in 1..Len(f) : f[i] = "=" /\ \A k \in 1..(i - 1) : f[k] # "="

\* parse_qsl keeps the fields that hold a '=' and a non-blank value
KeptField(f) == HasEq(f) /\ EqPos(f) < Len(f)

FieldName(f) == Decode(SubSeq(f, 1, EqPos(f) - 1))

FieldValue(f) == Decode(SubSeq(f, EqPos(f) + 1, Len(f)))

\* {k: v[0] for k, v in urllib.parse.parse_qs(body).items()}: each name with
\* the first of its values
slack_event(body) ==
    LET kept == SelectSeq(body, KeptField)
        names == {FieldName(kept[i]) : i \in 1..Len(kept)}
        first(n) == CHOOSE i \in 1..Len(kept) :
                        /\ FieldName(kept[i]) = n
                        /\ \A k \in 1..(i - 1) : FieldName(kept[k]) # n
    IN  [n \in names |-> FieldValue(kept[first(n)])]

(***************************************************************************)
(* lambda_handler                                                           *)
(***************************************************************************)

K_command == <<"c", "o", "m", "m", "a", "n", "d">>

K_text == <<"t", "e", "x", "t">>

K_challenge == <<"c", "h", "a", "l", "l", "e", "n", "g", "e">>

\* '/logerror'
LogErrorCommand == <<"/", "l", "o", "g", "e", "r", "r", "o", "r">>

\* what lambda_handler returns: statusCode, headers, and the body that
\* json.dumps writes, kept as the dict it is written from
Reply(response_type, fmt, arg) ==
    [statusCode |-> 200,
     headers |-> [ContentType |-> "application/json"],
     body |-> [response_type |-> response_type,
               text |-> [fmt |-> fmt, arg |-> arg]]]

\* an exception that leaves lambda_handler: there is no response
Escapes(e) == [raised |-> e]

\* an except clause that raises again
except_Exception_reraise(e) == Escapes(e)

\* except Exception as e (lines 141-150).  The except SlackApiError clause
\* of lines 130-139 is never entered: the handler makes no Slack API call.
except_Exception(e) == Reply("ephemeral", "Error: {str(e)}", e)

NoItem == [type |-> "NoItem"]

\* where lambda_handler stands after lines 65-108: it has returned (pc
\* "done") or is about to call table.put_item (pc "put_item")
Returns(v, r) == [pc |-> "done", verified |-> v, data |-> NoItem, response |-> r]

Raises(v, e) == Returns(v, except_Exception(e))

\* lines 89-108: the usage hint when parse_slash_command returned None,
\* otherwise the item to put
handle_parsed(pd, t) ==
    IF pd = PyNone
    THEN Returns("True", Reply("ephemeral",
             "Invalid format. Please use 'order_id: [order_id] flow: [flow] error: [error]'.",
             ""))
    ELSE [pc |-> "put_item", verified |-> "True",
          data |-> [order_id |-> pd.order_id, Flow |-> pd.flow,
                    Error |-> pd.error, Timestamp |-> t],
          response |-> Unset]

\* lines 86-128, up to the call of table.put_item
dispatch(se, t) ==
    IF K_command \in DOMAIN se /\ se[K_command] = LogErrorCommand
    THEN IF K_text \notin DOMAIN se THEN Raises("True", "KeyError: 'text'")
         ELSE handle_parsed(parse_slash_command(se[K_text]), t)
    ELSE Returns("True", Reply("ephemeral", "No action taken", ""))

\* lambda_handler without the return of lines 77-84: a request that fails
\* the verification is dispatched all the same
lambda_handler_unverified(ev, t) ==
    IF ~ev.has_body THEN Raises("not called", "KeyError: 'body'")
    ELSE IF ~ev.has_headers THEN Raises("not called", "KeyError: 'headers'")
    ELSE LET v == verify_slack_request(ev.sig, ev.ts, PyStr(ev.body))
         IN  IF v = "TypeError" THEN Raises(v, "TypeError")
             ELSE [dispatch(slack_event(ev.body), t) EXCEPT !.verified = v]

\* lines 65-108: lambda_handler(event, context) up to the call of
\* table.put_item; every exception is caught at line 141
lambda_handler(ev, t) ==
    IF ~ev.has_body THEN Raises("not called", "KeyError: 'body'")
    ELSE IF ~ev.has_headers THEN Raises("not called", "KeyError: 'headers'")
    ELSE LET v == verify_slack_request(ev.sig, ev.ts, PyStr(ev.body))
         IN  IF v = "TypeError" THEN Raises(v, "TypeError")
             ELSE IF v = "False"
             THEN Returns(v, Reply("ephemeral", "Verification failed", ""))
             ELSE dispatch(slack_event(ev.body), t)

\* a write that updates the Error and Timestamp of an item that exists and
\* leaves its Flow
put_item_merge(tbl, item) ==
    [k \in DOMAIN tbl \cup {item.order_id} |->
        IF k # item.order_id THEN tbl[k]
        ELSE IF k \in DOMAIN tbl THEN [item EXCEPT !.Flow = tbl[k].Flow]
        ELSE item]

\* table.put_item(Item=data): one put, which replaces the whole item that
\* has the key order_id
put_item(tbl, item) ==
    [k \in DOMAIN tbl \cup {item.order_id} |->
        IF k = item.order_id THEN item ELSE tbl[k]]

(***************************************************************************)
(* The events lambda_handler is given                                       *)
(***************************************************************************)

\* the number of invocations of lambda_handler, which may run concurrently
NumInvocations == 2

Invocations == 1..NumInvocations

UsageShape ==
    [fields |-> <<"order_id", "flow", "error">>,
     keyword |-> <<"o", "r", "d", "e", "r", "_", "i", "d">>,
     delim |-> ":", padL |-> 0, padR |-> 1, N |-> <<"4", "2">>,
     braces |-> FALSE, entries |-> <<<<"c", "h", "e", "c", "k", "o", "u", "t">>>>,
     gap |-> 0, Y |-> <<"t", "i", "m", "e", "o", "u", "t">>]

ListShape ==
    [UsageShape EXCEPT !.delim = "=", !.padR = 0, !.N = <<"7">>, !.braces = TRUE,
                       !.entries = <<<<"a">>, <<"b">>>>, !.gap = 1,
                       !.Y = <<"b", "a", "d", " ", "s", "t", "a", "t", "e">>]

\* the texts of the /logerror commands: the format of the usage hint, a
\* flow list, a second report for each of the two order ids, an empty flow
\* list, an empty error text, and a text without an order id
HandlerShapes ==
    {UsageShape,
     ListShape,
     [UsageShape EXCEPT !.entries = <<<<"p", "a", "y">>>>, !.Y = <<"b", "a", "d">>],
     [ListShape EXCEPT !.N = <<"0", "0", "7">>, !.entries = <<>>, !.gap = 0],
     [UsageShape EXCEPT !.N = <<"7">>, !.Y = <<>>],
     [UsageShape EXCEPT !.fields = <<"flow", "error">>]}

HandlerTexts == {Render(sh) : sh \in HandlerShapes}

Field(name, value) == name \o <<"=">> \o Encode(value)

ChallengeValue == <<"a", "b", "c", "1", "2", "3">>

\* the JSON body {"challenge": "abc123"} of a URL verification handshake
JsonChallenge ==
    <<"{", "\"">> \o K_challenge \o <<"\"", ":", " ", "\"">> \o ChallengeValue
                  \o <<"\"", "}">>

OtherCommand == <<"/", "h", "e", "l", "p">>

UsageBody == <<Field(K_command, LogErrorCommand), Field(K_text, Render(UsageShape))>>

Bodies ==
    {<<Field(K_command, LogErrorCommand), Field(K_text, t)>> : t \in HandlerTexts}
    \cup
    {<<Field(K_command, OtherCommand), Field(K_text, Render(UsageShape))>>,
     <<Field(K_text, Render(UsageShape))>>,
     <<Field(K_command, LogErrorCommand), Field(K_text, <<>>)>>,
     <<Field(K_command, OtherCommand), Field(K_command, LogErrorCommand),
       Field(K_text, Render(UsageShape))>>,
     <<JsonChallenge>>,
     <<Field(K_challenge, ChallengeValue), Field(K_command, LogErrorCommand),
       Field(K_text, Render(ListShape))>>}

Timestamps == {"1700000000", "1700000060"}

\* an X-Slack-Signature that Slack computes with the signing secret
SlackSignature(timestamp, body) == PyStr(my_signature(timestamp, PyStr(body)))

\* the X-Slack-Signature headers that do not verify: computed with another
\* secret, not of the v0 scheme, absent, or not ASCII
BadSignatures(timestamp, body) ==
    LET base == sig_basestring(timestamp, PyStr(body))
    IN  {PyStr(<<"v0=", hexdigest("another-secret", base)>>),
         PyStr(<<"v1=", hexdigest(slack_signing_secret, base)>>),
         PyNone,
         NonAsciiStr(<<"v0=\\u00e9", hexdigest(slack_signing_secret, base)>>)}

Event(body, sig, ts) ==
    [has_body |-> TRUE, body |-> body, has_headers |-> TRUE, sig |-> sig, ts |-> ts]

NoEvent == [has_body |-> FALSE, body |-> <<>>, has_headers |-> FALSE,
            sig |-> PyNone, ts |-> PyNone]

\* the events: every body signed by Slack; one of them with each signature
\* that does not verify, without the timestamp header, without headers; and
\* an event without a body
Events ==
    {Event(b, SlackSignature(PyStr("1700000000"), b), PyStr("1700000000")) : b \in Bodies}
    \cup
    UNION {{Event(b, sg, PyStr("1700000000")) :
                sg \in BadSignatures(PyStr("1700000000"), b)}
           \cup {Event(b, SlackSignature(PyStr("1700000000"), b), PyNone),
                 Event(b, SlackSignature(PyNone, b), PyNone),
                 [Event(b, PyNone, PyNone) EXCEPT !.has_headers = FALSE]} :
           b \in {UsageBody}}
    \cup
    {NoEvent}

(***************************************************************************)
(* The handler: concurrent invocations that share the table                 *)
(***************************************************************************)

InitParse ==
    /\ text = <<>>
    /\ shape = NoShape
    /\ parsed_data = Unset

InitVerify ==
    /\ request = [slack_signature |-> PyNone, timestamp |-> PyNone, body |-> PyNone]
    /\ verdict = "unset"

InitHandler ==
    /\ table = <<>>
    /\ puts = <<>>
    /\ now = 0
    /\ pc = [p \in Invocations |-> "idle"]
    /\ event = [p \in Invocations |-> NoEvent]
    /\ verified = [p \in Invocations |-> "not called"]
    /\ data = [p \in Invocations |-> NoItem]
    /\ response = [p \in Invocations |-> Unset]

Init == InitHandler /\ InitParse /\ InitVerify

\* lines 63-108: invocation p is given an event and runs until it returns or
\* reaches table.put_item; the clock moves when line 107 reads it
Handle(p) ==
    /\ pc[p] = "idle"
    /\ \E ev \in Events :
          \E out \in {lambda_handler(ev, now)} :
              /\ event' = [event EXCEPT ![p] = ev]
              /\ pc' = [pc EXCEPT ![p] = out.pc]
              /\ verified' = [verified EXCEPT ![p] = out.verified]
              /\ data' = [data EXCEPT ![p] = out.data]
              /\ response' = [response EXCEPT ![p] = out.response]
              /\ now' = IF out.pc = "put_item" THEN now + 1 ELSE now
    /\ UNCHANGED <<table, puts, text, shape, parsed_data, request, verdict>>

\* lines 112-119: the return after table.put_item
confirmation(item) ==
    Reply("in_channel", "Your issue with Order ID {order_id} has been logged.",
          item.order_id)

\* lines 110-119: table.put_item succeeds, and the handler returns
\* the confirmation
put_item_returns(p) ==
    /\ pc[p] = "put_item"
    /\ table' = put_item(table, data[p])
    /\ puts' = Append(puts, [invocation |-> p, Item |-> data[p]])
    /\ response' = [response EXCEPT ![p] = confirmation(data[p])]
    /\ pc' = [pc EXCEPT ![p] = "done"]
    /\ UNCHANGED <<now, event, verified, data, text, shape, parsed_data,
                   request, verdict>>

\* a put_item whose exception is swallowed before the return of line 112
put_item_raises_confirms(p) ==
    /\ pc[p] = "put_item"
    /\ response' = [response EXCEPT ![p] = confirmation(data[p])]
    /\ pc' = [pc EXCEPT ![p] = "done"]
    /\ UNCHANGED <<table, puts, now, event, verified, data, text, shape,
                   parsed_data, request, verdict>>

\* lines 110, 141-150: table.put_item raises (botocore's ClientError, a
\* connection error), which except Exception catches
put_item_raises(p) ==
    /\ pc[p] = "put_item"
    /\ response' = [response EXCEPT ![p] = except_Exception("ClientError")]
    /\ pc' = [pc EXCEPT ![p] = "done"]
    /\ UNCHANGED <<table, puts, now, event, verified, data, text, shape,
                   parsed_data, request, verdict>>

Next ==
    \E p \in Invocations : Handle(p) \/ put_item_returns(p) \/ put_item_raises(p)

Spec == Init /\ [][Next]_vars

(***************************************************************************)
(* parse_slash_command alone                                                *)
(***************************************************************************)

ParseInit ==
    /\ InitHandler /\ InitVerify
    /\ shape \in DrawnShapes
    /\ text = Render(shape)
    /\ parsed_data = Unset

\* parsed_data = parse_slash_command(slack_event['text'])
Parse ==
    /\ parsed_data = Unset
    /\ parsed_data' = parse_slash_command(text)
    /\ UNCHANGED <<table, puts, now, pc, event, verified, data, response,
                   text, shape, request, verdict>>

ParseNext == Parse

ParseSpec == ParseInit /\ [][ParseNext]_vars

(***************************************************************************)
(* verify_slack_request alone                                               *)
(***************************************************************************)

VerifyBodies == {UsageBody, <<JsonChallenge>>, <<>>}

TimestampHeaders == {PyNone} \cup {PyStr(t) : t \in Timestamps}

\* the signatures a caller may send: what Slack computes for any timestamp
\* and body, and the ones that cannot verify
SignatureHeaders ==
    {SlackSignature(t, b) : t \in TimestampHeaders, b \in VerifyBodies}
    \cup UNION {BadSignatures(t, b) : t \in TimestampHeaders, b \in VerifyBodies}

VerifyInit ==
    /\ InitHandler /\ InitParse
    /\ request \in [slack_signature : SignatureHeaders,
                    timestamp : TimestampHeaders,
                    body : {PyStr(b) : b \in VerifyBodies}]
    /\ verdict = "unset"

\* verify_slack_request(slack_signature, timestamp, event['body'])
Verify ==
    /\ verdict = "unset"
    /\ verdict' = verify_slack_request(request.slack_signature, request.timestamp,
                                       request.body)
    /\ UNCHANGED <<table, puts, now, pc, event, verified, data, response,
                   text, shape, parsed_data, request>>

VerifyNext == Verify

VerifySpec == VerifyInit /\ [][VerifyNext]_vars

(***************************************************************************)
(* The handler's properties                                                 *)
(***************************************************************************)

\* invocation p's put_item has completed
Wrote(p) == \E i \in 1..Len(puts) : puts[i].invocation = p

\* the bodies whose decoded command is '/logerror'
LogErrorBodies ==
    {b \in Bodies : /\ K_command \in DOMAIN slack_event(b)
                    /\ slack_event(b)[K_command] = LogErrorCommand}

\* the decoded command of invocation p's event is '/logerror'
IsLogError(p) == event[p].has_body /\ event[p].body \in LogErrorBodies

\* the response of invocation p is a reply of that type and text
Replied(p, response_type, fmts) ==
    /\ pc[p] = "done"
    /\ "statusCode" \in DOMAIN response[p]
    /\ response[p].body.response_type = response_type
    /\ response[p].body.text.fmt \in fmts

\* C1: the table is written only by an invocation whose verification
\* returned True and whose command is '/logerror'; an invocation whose
\* verification did not return True (it returned False, or the missing
\* signature made it raise) has answered with an ephemeral message that is
\* not the confirmation and has not written; a verified invocation with any
\* other command has answered 'No action taken' and has not written.
C1_WriteOnlyVerifiedLogError ==
    \A p \in Invocations :
        /\ (pc[p] = "put_item" \/ Wrote(p)) => verified[p] = "True" /\ IsLogError(p)
        /\ (pc[p] # "idle" /\ verified[p] # "True") =>
              /\ ~Wrote(p)
              /\ Replied(p, "ephemeral", {"Verification failed", "Error: {str(e)}"})
        /\ verified[p] = "False" => Replied(p, "ephemeral", {"Verification failed"})
        /\ (verified[p] = "True" /\ ~IsLogError(p)) =>
              /\ ~Wrote(p)
              /\ Replied(p, "ephemeral", {"No action taken"})

\* one invocation has written and another was refused at the verification
C1_Witness ==
    \E p, q \in Invocations :
        /\ Wrote(p)
        /\ verified[q] = "False" /\ pc[q] = "done" /\ IsLogError(q)

\* C2: every item written to the table has a non-empty flow without an
\* empty entry and a non-empty error text (its order id is a number).
C2_PersistedFieldsNonEmpty ==
    \A i \in 1..Len(puts) :
        /\ puts[i].Item.Flow # <<>>
        /\ \A k \in 1..Len(puts[i].Item.Flow) : puts[i].Item.Flow[k] # <<>>
        /\ puts[i].Item.Error # <<>>

\* invocation p called put_item and it raised
PutFailed(p) == pc[p] = "done" /\ data[p] # NoItem /\ ~Wrote(p)

\* C6: when table.put_item raises, no exception leaves lambda_handler and it
\* returns the ephemeral 'Error: ...' reply; the in-channel confirmation is
\* returned only by an invocation whose put_item completed, for the order id
\* it wrote.
C6_PutFailureCaught ==
    \A p \in Invocations :
        /\ PutFailed(p) =>
              /\ "raised" \notin DOMAIN response[p]
              /\ Replied(p, "ephemeral", {"Error: {str(e)}"})
        /\ (pc[p] = "done" /\ "statusCode" \in DOMAIN response[p]
               /\ response[p].body.response_type = "in_channel") =>
              /\ \E i \in 1..Len(puts) :
                     puts[i].invocation = p /\ puts[i].Item = data[p]
              /\ response[p].body.text.arg = data[p].order_id

\* a put_item raised after a successful extraction
C6_Witness == \E p \in Invocations : PutFailed(p)

\* the bodies that carry a "challenge" key: as the JSON body of the URL
\* verification handshake, or as a form field
ChallengeBodies ==
    {b \in Bodies : b = <<JsonChallenge>> \/ K_challenge \in DOMAIN slack_event(b)}

HasChallenge(ev) == ev.has_body /\ ev.body \in ChallengeBodies

\* C7: an invocation whose payload holds a "challenge" key returns status 200
\* with that challenge value in its body, and writes nothing (stated for
\* the payloads that Slack signed, the ones that reach the dispatch).
C7_ChallengeEchoed ==
    \A p \in Invocations :
        (pc[p] # "idle" /\ HasChallenge(event[p]) /\ verified[p] = "True") =>
            /\ pc[p] = "done"
            /\ ~Wrote(p)
            /\ "statusCode" \in DOMAIN response[p]
            /\ response[p].statusCode = 200
            /\ "challenge" \in DOMAIN response[p].body
            /\ response[p].body.challenge = ChallengeValue

\* the texts lambda_handler replies with
ReplyTexts ==
    {"Verification failed", "No action taken", "Error: {str(e)}",
     "Invalid format. Please use 'order_id: [order_id] flow: [flow] error: [error]'.",
     "Your issue with Order ID {order_id} has been logged."}

\* C8: every invocation returns: it is never stuck before its return, no
\* exception leaves it, and what it returns has statusCode 200 and a body
\* with response_type "ephemeral" or "in_channel" and one of the texts.
C8_AlwaysReplies200 ==
    \A p \in Invocations :
        /\ pc[p] \in {"idle", "put_item", "done"}
        /\ pc[p] = "idle" => ENABLED Handle(p)
        /\ pc[p] = "put_item" => ENABLED (put_item_returns(p) \/ put_item_raises(p))
        /\ pc[p] = "done" =>
              /\ DOMAIN response[p] = {"statusCode", "headers", "body"}
              /\ response[p].statusCode = 200
              /\ DOMAIN response[p].body = {"response_type", "text"}
              /\ response[p].body.response_type \in {"ephemeral", "in_channel"}
              /\ response[p].body.text.fmt \in ReplyTexts

\* every invocation has returned: one without a body in its event, which
\* raised KeyError, and one whose put_item raised
C8_Witness ==
    /\ \A p \in Invocations : pc[p] = "done"
    /\ \E p \in Invocations : ~event[p].has_body
    /\ \E p \in Invocations : PutFailed(p)

\* the index of the last completed put for order id k
LastPut(k) ==
    CHOOSE i \in 1..Len(puts) :
        /\ puts[i].Item.order_id = k
        /\ \A j \in (i + 1)..Len(puts) : puts[j].Item.order_id # k

\* C9: each invocation writes at most once; the table holds one item for
\* each order id that was written and no other; that item is, field for
\* field, the item of the last put_item that completed for the order id.
C9_LastWriterWins ==
    /\ \A p \in Invocations :
          Cardinality({i \in 1..Len(puts) : puts[i].invocation = p}) <= 1
    /\ DOMAIN table = {puts[i].Item.order_id : i \in 1..Len(puts)}
    /\ \A k \in DOMAIN table : table[k] = puts[LastPut(k)].Item

\* all invocations have returned and two of them wrote different items for
\* the same order id
C9_Witness ==
    /\ \A p \in Invocations : pc[p] = "done"
    /\ \E i, j \in 1..Len(puts) :
          /\ i < j
          /\ puts[i].invocation # puts[j].invocation
          /\ puts[i].Item.order_id = puts[j].Item.order_id
          /\ puts[i].Item.Flow # puts[j].Item.Flow
          /\ puts[i].Item.Error # puts[j].Item.Error

(***************************************************************************)
(* The parser's properties                                                  *)
(***************************************************************************)

Written(sh, f) == \E k \in 1..Len(sh.fields) : sh.fields[k] = f

\* the number an order id of the texts stands for
OrderNumber(n) == IF n = <<"4", "2">> THEN 42 ELSE 7

\* the text is `flow: X order id: N error: Y`: one flow token, ':' as the
\* delimiter, with any spaces around it
IsTripleForm(sh) ==
    /\ sh.fields = <<"flow", "order_id", "error">>
    /\ ~sh.braces
    /\ sh.delim = ":"
    /\ sh.keyword[6] = " "

\* C3: for a text `flow: X order id: N error: Y`, with any spaces around the
\* delimiters, parse_slash_command returns flow X, order id N and error Y.
C3_ExactTriple ==
    (parsed_data # Unset /\ IsTripleForm(shape)) =>
        /\ parsed_data # PyNone
        /\ parsed_data.flow = shape.entries
        /\ parsed_data.order_id = OrderNumber(shape.N)
        /\ parsed_data.error = shape.Y

\* C4: a text in which one of the three keywords is not written yields None,
\* whatever the other two are; None is returned exactly when one of the
\* three patterns does not match, and what is returned otherwise is the
\* whole dict.
C4_AllOrNothing ==
    parsed_data # Unset =>
        /\ (\E f \in FieldNames : ~Written(shape, f)) => parsed_data = PyNone
        /\ parsed_data = PyNone <=>
              ~(/\ order_id_match(text).matched
                /\ flow_match(text).matched
                /\ error_match(text).matched)
        /\ parsed_data # PyNone =>
              DOMAIN parsed_data =
                  {"type", "order_id", "flow", "error", "original_input"}

\* a text with two of the three fields was parsed, and the result is None
C4_Witness ==
    /\ parsed_data = PyNone
    /\ Len(shape.fields) = 2
    /\ flow_match(text).matched

\* the text holds the three fields with a brace-enclosed list of one or
\* more entries as its flow, and the error text as its last field (as in
\* `order_id=7 flow={a, b} error=bad state`)
IsListForm(sh) ==
    /\ Len(sh.fields) = 3
    /\ sh.fields[3] = "error"
    /\ sh.braces
    /\ sh.entries # <<>>

C5_NeverThrows ==
    verdict # "unset" =>
        /\ verdict \in {"True", "False"}
        /\ verdict = "True" =>
              request.slack_signature =
                  PyStr(<<"v0=", hexdigest(slack_signing_secret,
                             <<"v0:", Format(request.timestamp), ":",
                               request.body.value>>)>>)

====
